---- MODULE Spec2Model ----
(***************************************************************************)
(* Model of location_data/running_stats.py: the StatsCount / Stats /       *)
(* StatsWithSum category stores and their text report.                     *)
(*                                                                         *)
(* Strings are sequences of integers: code points for text (Python 2       *)
(* `unicode`, Python 3 `str`) and byte values for Python 2 `str`.          *)
(* The module runs under Python 2 and 3 (`from __future__ import           *)
(* print_function`); `py` is the interpreter of the run.                   *)
(***************************************************************************)
EXTENDS Integers, Sequences, FiniteSets, TLC

VARIABLES py, cls, heap, data, added, ret

vars == <<py, cls, heap, data, added, ret>>

\* ---------------------------------------------------------------- bounds
\* Total number of add calls in a run.
MaxAdds == 3

\* ------------------------------------------------------ program constants
\* StatsCount.report_value_limit
report_value_limit == 150

\* ------------------------------------------------------------ characters
TAB == 9
NL == 10
SP == 32
QUOTE == 39
COMMA == 44
COLON == 58
LBRACK == 91
RBRACK == 93
LPAREN == 40
RPAREN == 41
BACKSLASH == 92
EQUALS == 61
MINUS == 45
DIGIT0 == 48
LOWER_A == 97
LOWER_U == 117
LOWER_X == 120
DOT == 46
ASCII_LIMIT == 128

\* "None"
S_None == <<78, 111, 110, 101>>
\* ": "
S_ColonSp == <<COLON, SP>>
\* ", "
S_CommaSp == <<COMMA, SP>>
\* "..."
S_Ellipsis == <<DOT, DOT, DOT>>
\* " total="
S_Total == <<SP, 116, 111, 116, 97, 108, EQUALS>>
\* "Time taken (h:m:s): "
S_TimeTaken == <<84, 105, 109, 101, SP, 116, 97, 107, 101, 110, SP, LPAREN, 104, COLON, 109, COLON, 115, RPAREN, COLON, SP>>

\* ------------------------------------------------------- sequence helpers
\* c * n
Repeat(c, n) == [i \in 1..n |-> c]

\* The concatenation of a sequence of sequences (by halves).
RECURSIVE Concat(_)
Concat(ss) ==
    IF ss = <<>> THEN <<>>
    ELSE IF Len(ss) = 1 THEN ss[1]
    ELSE LET h == Len(ss) \div 2
         IN  Concat(SubSeq(ss, 1, h)) \o Concat(SubSeq(ss, h + 1, Len(ss)))

\* sep.join(parts)
RECURSIVE Join(_, _)
Join(sep, parts) ==
    IF parts = <<>> THEN <<>>
    ELSE IF Len(parts) = 1 THEN parts[1]
    ELSE parts[1] \o sep \o Join(sep, Tail(parts))

\* s[:n]
Prefix(s, n) == SubSeq(s, 1, IF Len(s) < n THEN Len(s) ELSE n)

\* Python's comparison of two strings: by code point, a proper prefix first.
RECURSIVE SeqLess(_, _)
SeqLess(a, b) ==
    IF b = <<>> THEN FALSE
    ELSE IF a = <<>> THEN TRUE
    ELSE IF Head(a) # Head(b) THEN Head(a) < Head(b)
    ELSE SeqLess(Tail(a), Tail(b))

IsAscii(c) == c < ASCII_LIMIT

AllAscii(s) == \A i \in 1..Len(s) : IsAscii(s[i])

\* ------------------------------------------------------------ the values
\* A Python value: kind "unicode" is text (Python 2 unicode, Python 3 str),
\* "bytes" is a Python 2 str, "int" an integer, "none" is None.
TextVal(s) == [kind |-> "unicode", s |-> s, n |-> 0]
BytesVal(s) == [kind |-> "bytes", s |-> s, n |-> 0]
IntVal(n) == [kind |-> "int", s |-> <<>>, n |-> n]
NoneVal == [kind |-> "none", s |-> <<>>, n |-> 0]

\* A plain string literal of the calling script: a byte string under
\* Python 2, text under Python 3.
NativeVal(p, s) == IF p = 2 THEN BytesVal(s) ELSE TextVal(s)

\* str(n) of an integer, also '%i' % n
RECURSIVE DecStr(_)
DecStr(n) ==
    IF n < 0 THEN <<MINUS>> \o DecStr(0 - n)
    ELSE IF n < 10 THEN <<DIGIT0 + n>>
    ELSE DecStr(n \div 10) \o <<DIGIT0 + (n % 10)>>

\* str(v), the text '%s' substitutes for v
Str(v) ==
    CASE v.kind = "int" -> DecStr(v.n)
      [] v.kind = "none" -> S_None
      [] OTHER -> v.s

HexDigit(d) == IF d < 10 THEN DIGIT0 + d ELSE LOWER_A + (d - 10)

\* One character of a repr() under Python 2: a byte or code point from
\* 128 to 255 is written \xNN. (The values of this model hold no quote,
\* backslash or control character, and no code point above 255.)
Escape2(c) ==
    IF IsAscii(c) THEN <<c>>
    ELSE <<BACKSLASH, LOWER_X, HexDigit(c \div 16), HexDigit(c % 16)>>

\* The characters of s, each escaped (an all-ASCII s is its own escape).
EscapeAll2(s) ==
    IF AllAscii(s) THEN s ELSE Concat([i \in 1..Len(s) |-> Escape2(s[i])])

\* repr(v), the text '%r' substitutes for v
Repr(p, v) ==
    CASE v.kind = "int" -> DecStr(v.n)
      [] v.kind = "none" -> S_None
      [] v.kind = "bytes" -> <<QUOTE>> \o EscapeAll2(v.s) \o <<QUOTE>>
      [] v.kind = "unicode" /\ p = 2 -> <<LOWER_U, QUOTE>> \o EscapeAll2(v.s) \o <<QUOTE>>
      [] OTHER -> <<QUOTE>> \o v.s \o <<QUOTE>>

\* repr of one entry of an accumulator: a value (Stats) or an
\* (id, number) tuple (StatsWithSum)
ReprEntry(p, k, e) ==
    IF k = "StatsWithSum"
    THEN <<LPAREN>> \o Repr(p, e[1]) \o S_CommaSp \o Repr(p, e[2]) \o <<RPAREN>>
    ELSE Repr(p, e)

\* repr of a list
ReprList(p, k, values) ==
    <<LBRACK>> \o Join(S_CommaSp, [i \in 1..Len(values) |-> ReprEntry(p, k, values[i])])
        \o <<RBRACK>>

\* 'a%sb%s...' % args, with the literal pieces `lits` around the arguments
\* (Len(lits) = Len(args) + 1). Under Python 2 one unicode argument makes
\* the result unicode and every byte-string argument is then decoded as
\* ASCII, which raises on a byte >= 128.
PercentS(p, lits, args) ==
    LET body == Concat([i \in 1..(2 * Len(args) + 1) |->
                    IF i % 2 = 1 THEN lits[(i + 1) \div 2] ELSE Str(args[i \div 2])])
        anyUnicode == \E i \in 1..Len(args) : args[i].kind = "unicode"
        badBytes == \E i \in 1..Len(args) : args[i].kind = "bytes" /\ ~AllAscii(args[i].s)
    IN  IF p = 3 THEN [exc |-> "none", kind |-> "unicode", s |-> body]
        ELSE IF ~anyUnicode THEN [exc |-> "none", kind |-> "bytes", s |-> body]
        ELSE IF badBytes THEN [exc |-> "UnicodeDecodeError", kind |-> "none", s |-> <<>>]
        ELSE [exc |-> "none", kind |-> "unicode", s |-> body]

\* r.encode('ascii', 'ignore'). Text drops every non-ASCII character. A
\* Python 2 byte string is first decoded with the default (ASCII, strict)
\* codec, which raises on a byte >= 128.
EncodeAsciiIgnore(r) ==
    IF r.exc # "none" THEN r
    ELSE IF r.kind = "unicode"
    THEN [exc |-> "none", kind |-> "bytes", s |-> SelectSeq(r.s, IsAscii)]
    ELSE IF AllAscii(r.s) THEN r
    ELSE [exc |-> "UnicodeDecodeError", kind |-> "none", s |-> <<>>]

\* sum(num for id_, num in values): 0 + num1 + num2 + ...; adding a
\* non-number to an int raises TypeError
IsNumber(v) == v.kind = "int"

\* (variant: sum(..., 1), a sum seeded with 1)
RECURSIVE SumNumsSeeded(_)
SumNumsSeeded(values) ==
    IF values = <<>> THEN 1
    ELSE SumNumsSeeded(SubSeq(values, 1, Len(values) - 1)) + values[Len(values)][2].n

RECURSIVE SumNums(_)
SumNums(values) ==
    IF values = <<>> THEN 0
    ELSE SumNums(SubSeq(values, 1, Len(values) - 1)) + values[Len(values)][2].n

AllNumbers(values) == \A i \in 1..Len(values) : IsNumber(values[i][2])

\* ------------------------------------------------------ the input domains
\* The store instances a run constructs: two Stats(), or one StatsWithSum().
AllStores == {1, 2, 3}
StoresOf(k) == IF k = "Stats" THEN {1, 2} ELSE {3}

\* Category names: "None" and "No" (plain ASCII literals).
Categories == {S_None, <<78, 111>>}

\* "caf" followed by e-acute, as text and as its UTF-8 bytes
S_CafeText == <<99, 97, 102, 233>>
S_CafeUtf8 == <<99, 97, 102, 195, 169>>
\* a pound sign and "5", as text and as its UTF-8 bytes
S_PoundText == <<163, 53>>
S_PoundUtf8 == <<194, 163, 53>>
\* "id1"
S_Id1 == <<105, 100, 49>>

\* A value whose summary "1 ['" + value + "']" is exactly
\* report_value_limit characters long.
AtLimit(p) == NativeVal(p, Repeat(LOWER_X, report_value_limit - 6))

\* The values a script passes to Stats.add.
StatsValues(p) ==
    IF p = 2 THEN {TextVal(S_CafeText), BytesVal(S_CafeUtf8), AtLimit(p)}
    ELSE {TextVal(S_CafeText), AtLimit(p)}

\* The (id, number) pairs a script passes to StatsWithSum.add; None and the
\* pound string are number columns that were never parsed.
SumArgs(p) ==
    {<<NativeVal(p, S_Id1), IntVal(2)>>, <<NativeVal(p, S_Id1), IntVal(0 - 3)>>,
     <<AtLimit(p), IntVal(12)>>, <<NativeVal(p, S_Id1), NoneVal>>,
     <<NativeVal(p, S_Id1), IF p = 2 THEN BytesVal(S_PoundUtf8) ELSE TextVal(S_PoundText)>>}

\* The arguments of a report call: <<indent, order_by_title,
\* show_time_taken, elapsed seconds>>; the first is the default call.
ReportArgs ==
    {<<1, FALSE, TRUE, 3661>>, <<0, TRUE, FALSE, 0>>, <<2, FALSE, FALSE, 0>>}

\* ------------------------------------------------------------- the store
\* data[st][c] is the reference held under key c of store st, or Absent.
\* heap[r] is the list object r; heap[InitRef] is the class attribute
\* _init_value of the run's class.
Absent == 0
InitRef == 1

Keys(st) == {c \in Categories : data[st][c] # Absent}

\* copy.deepcopy(heap[ref]): a new list object with equal contents
DeepCopy(h, ref) == [heap |-> Append(h, h[ref]), ref |-> Len(h) + 1]

\* (variant: self[category] = self._init_value, every category sharing the
\* class-level list)
InitCategoryShared(h, d, st, category) ==
    IF d[st][category] = Absent
    THEN [heap |-> h, data |-> [d EXCEPT ![st][category] = InitRef]]
    ELSE [heap |-> h, data |-> d]

\* StatsCount._init_category
_init_category(h, d, st, category) ==
    IF d[st][category] = Absent
    THEN LET c == DeepCopy(h, InitRef)
         IN  [heap |-> c.heap, data |-> [d EXCEPT ![st][category] = c.ref]]
    ELSE [heap |-> h, data |-> d]

\* (variants: self[category] + [entry], whose result is dropped, and
\* self[category] = [entry])
ListAppendDiscarded(h, ref, entry) == h

ListAppendReplace(h, ref, entry) == [h EXCEPT ![ref] = <<entry>>]

\* self[category].append(entry)
ListAppend(h, ref, entry) == [h EXCEPT ![ref] = Append(@, entry)]

\* (variant: the ellipsis counted inside the limit, cut from the limit on)
TruncateInsideLimit(value_str) ==
    IF Len(value_str) >= report_value_limit
    THEN Prefix(value_str, report_value_limit - 3) \o S_Ellipsis
    ELSE value_str

\* value_str[:limit] + '...' when value_str is longer than the limit
Truncate(value_str) ==
    IF Len(value_str) > report_value_limit
    THEN Prefix(value_str, report_value_limit) \o S_Ellipsis
    ELSE value_str

\* '%i %r' % (number_of_values, value)
StatsValueStr(values) == DecStr(Len(values)) \o <<SP>> \o ReprList(py, "Stats", values)

\* '%i total=%s %r' % (number_of_values, sum_of_nums, values)
SumValueStr(values) ==
    DecStr(Len(values)) \o S_Total \o DecStr(SumNums(values)) \o <<SP>>
        \o ReprList(py, "StatsWithSum", values)

\* Stats.report_value
StatsReportValue(st, category) ==
    LET value == heap[data[st][category]]
    IN  [exc |-> "none", str |-> Truncate(StatsValueStr(value)), n |-> Len(value)]

\* StatsWithSum.report_value
SumReportValue(st, category) ==
    LET values == heap[data[st][category]]
    IN  IF ~AllNumbers(values)
        THEN [exc |-> "TypeError", str |-> <<>>, n |-> 0]
        ELSE [exc |-> "none", str |-> Truncate(SumValueStr(values)), n |-> Len(values)]

report_value(st, category) ==
    IF cls = "StatsWithSum" THEN SumReportValue(st, category)
    ELSE StatsReportValue(st, category)

\* ------------------------------------------------------------ the report
\* The orders in which a dict may hand out the keys S.
KeyOrders(S) ==
    {f \in [1..Cardinality(S) -> S] : \A i, j \in 1..Cardinality(S) : f[i] = f[j] => i = j}

\* (variant: key=lambda x: x[1][1])
CountKeyAscending(item) == item.n

\* key=lambda x: -x[1][1]
CountKey(item) == 0 - item.n

\* (variant: sorted(..., reverse=True))
TitleLessReversed(x, y) == SeqLess(y.category, x.category)

\* The order of two (category, value_tuple) items under the default tuple
\* comparison; the categories of a dict differ, so they decide.
TitleLess(x, y) == SeqLess(x.category, y.category)

ItemLess(x, y, order_by_title) ==
    IF order_by_title THEN TitleLess(x, y) ELSE CountKey(x) < CountKey(y)

\* sorted(): a stable sort. Insert x behind every item that is not
\* greater than it.
InsertItem(sortedItems, x, order_by_title) ==
    LET k == Cardinality({i \in 1..Len(sortedItems) : ~ItemLess(x, sortedItems[i], order_by_title)})
    IN  SubSeq(sortedItems, 1, k) \o <<x>> \o SubSeq(sortedItems, k + 1, Len(sortedItems))

RECURSIVE Sorted(_, _)
Sorted(items, order_by_title) ==
    IF items = <<>> THEN <<>>
    ELSE InsertItem(Sorted(SubSeq(items, 1, Len(items) - 1), order_by_title),
                    items[Len(items)], order_by_title)

TwoDigits(n) == <<DIGIT0 + (n \div 10), DIGIT0 + (n % 10)>>

\* str(timedelta) of a whole number of seconds below one day: H:MM:SS
\* (a fraction of a second would add .ffffff)
TimeDeltaStr(seconds) ==
    DecStr(seconds \div 3600) \o <<COLON>> \o TwoDigits((seconds % 3600) \div 60)
        \o <<COLON>> \o TwoDigits(seconds % 60)

\* (variant: the None line appended whatever the store holds)
NoneLinesAlways(st, indent_str, lines) == lines \o <<indent_str \o S_None>>

\* if not self: lines = [indent_str + 'None']
NoneLines(st, indent_str, lines) ==
    IF Keys(st) = {} THEN <<indent_str \o S_None>> ELSE lines

\* StatsCount.report; keys is the order self.keys() hands out, elapsed the
\* seconds from _start_time to now
report(st, indent, order_by_title, show_time_taken, keys, elapsed) ==
    LET indent_str == Repeat(TAB, indent)
        values == [i \in 1..Len(keys) |-> report_value(st, keys[i])]
        report_dict == [i \in 1..Len(keys) |->
                           [category |-> keys[i], str |-> values[i].str, n |-> values[i].n]]
        items == Sorted(report_dict, order_by_title)
        category_lines == [i \in 1..Len(items) |->
                              indent_str \o items[i].category \o S_ColonSp \o items[i].str]
        lines == NoneLines(st, indent_str, category_lines)
        time_lines == IF show_time_taken
                      THEN <<indent_str \o S_TimeTaken \o TimeDeltaStr(elapsed)>>
                      ELSE <<>>
    IN  IF \E i \in 1..Len(keys) : values[i].exc # "none"
        THEN [exc |-> "TypeError", text |-> <<>>]
        ELSE [exc |-> "none", text |-> Join(<<NL>>, lines \o time_lines)]

\* ---------------------------------------------------------- the actions
\* Number of add calls made so far.
RECURSIVE SumLen(_, _)
SumLen(f, S) ==
    IF S = {} THEN 0
    ELSE LET x == CHOOSE y \in S : TRUE IN Len(f[x]) + SumLen(f, S \ {x})

NumAdds ==
    SumLen([sc \in AllStores \X Categories |-> added[sc[1]][sc[2]]], StoresOf(cls) \X Categories)

\* The state after the script has constructed its stores: two Stats() or
\* one StatsWithSum(), every mapping empty, the class attribute
\* _init_value an empty list.
Init ==
    /\ py \in {2, 3}
    /\ cls \in {"Stats", "StatsWithSum"}
    /\ heap = << <<>> >>
    /\ data = [st \in AllStores |-> [c \in Categories |-> Absent]]
    /\ added = [st \in AllStores |-> [c \in Categories |-> <<>>]]
    /\ ret = [op |-> "new"]

\* Stats.add(category, value)
StatsAdd(st, category, value) ==
    /\ cls = "Stats"
    /\ NumAdds < MaxAdds
    /\ LET i == _init_category(heap, data, st, category)
       IN  /\ heap' = ListAppend(i.heap, i.data[st][category], value)
           /\ data' = i.data
    /\ ret' = [op |-> "add", st |-> st, category |-> category, args |-> <<value>>,
               result |-> EncodeAsciiIgnore(
                   PercentS(py, <<<<>>, S_ColonSp, <<>>>>, <<NativeVal(py, category), value>>))]
    /\ added' = [added EXCEPT ![st][category] = Append(@, value)]
    /\ UNCHANGED <<py, cls>>

\* StatsWithSum.add(category, id_, float_to_sum)
SumAdd(st, category, id_, float_to_sum) ==
    /\ cls = "StatsWithSum"
    /\ NumAdds < MaxAdds
    /\ LET i == _init_category(heap, data, st, category)
       IN  /\ heap' = ListAppend(i.heap, i.data[st][category], <<id_, float_to_sum>>)
           /\ data' = i.data
    /\ ret' = [op |-> "add", st |-> st, category |-> category, args |-> <<id_, float_to_sum>>,
               result |-> EncodeAsciiIgnore(
                   PercentS(py, <<<<>>, S_ColonSp, <<SP>>, <<>>>>,
                            <<NativeVal(py, category), id_, float_to_sum>>))]
    /\ added' = [added EXCEPT ![st][category] = Append(@, <<id_, float_to_sum>>)]
    /\ UNCHANGED <<py, cls>>

\* StatsCount.report(indent, order_by_title, show_time_taken)
Report(st, indent, order_by_title, show_time_taken, keys, elapsed) ==
    /\ ret' = [op |-> "report", st |-> st, indent |-> indent,
               order_by_title |-> order_by_title, show_time_taken |-> show_time_taken,
               result |-> report(st, indent, order_by_title, show_time_taken, keys, elapsed)]
    /\ UNCHANGED <<py, cls, heap, data, added>>

ReportAny ==
    \E st \in StoresOf(cls), a \in ReportArgs :
        \E keys \in KeyOrders(Keys(st)) : Report(st, a[1], a[2], a[3], keys, a[4])

Next ==
    \/ \E st \in StoresOf(cls), category \in Categories, value \in StatsValues(py) :
           StatsAdd(st, category, value)
    \/ \E st \in StoresOf(cls), category \in Categories, a \in SumArgs(py) :
           SumAdd(st, category, a[1], a[2])
    \/ ReportAny

Spec == Init /\ [][Next]_vars

\* ------------------------------------------------- reading a report back
IsDigit(c) == c >= DIGIT0 /\ c <= DIGIT0 + 9

\* The decimal number written in s from position i on (0 when none is).
RECURSIVE ParseNat(_, _, _)
ParseNat(s, i, acc) ==
    IF i > Len(s) \/ ~IsDigit(s[i]) THEN acc
    ELSE ParseNat(s, i + 1, 10 * acc + (s[i] - DIGIT0))

ParseInt(s, i) ==
    IF i <= Len(s) /\ s[i] = MINUS THEN 0 - ParseNat(s, i + 1, 0) ELSE ParseNat(s, i, 0)

\* Number of leading digits of s.
RECURSIVE DigitsFrom(_, _)
DigitsFrom(s, i) == IF i > Len(s) \/ ~IsDigit(s[i]) THEN 0 ELSE 1 + DigitsFrom(s, i + 1)

StartsWith(s, prefix) == Len(s) >= Len(prefix) /\ SubSeq(s, 1, Len(prefix)) = prefix

\* text.split('\n')
SplitLines(text) ==
    LET nls == {i \in 1..Len(text) : text[i] = NL}
        at(k) == CHOOSE i \in nls : Cardinality({j \in nls : j < i}) = k - 1
    IN  [k \in 1..(Cardinality(nls) + 1) |->
            SubSeq(text, IF k = 1 THEN 1 ELSE at(k - 1) + 1,
                         IF k = Cardinality(nls) + 1 THEN Len(text) ELSE at(k) - 1)]

\* The lines of the last report, and how many of them are category lines.
ReportLines == SplitLines(ret.result.text)
NumCategoryLines == Len(ReportLines) - (IF ret.show_time_taken THEN 1 ELSE 0)

\* A line is the line of category c: <indent>c: <summary>
IsLineOf(line, indent, c) == StartsWith(line, Repeat(TAB, indent) \o c \o S_ColonSp)

Reported == ret.op = "report" /\ ret.result.exc = "none"

\* Number of add calls made with category c on store st.
Calls(st, c) == Len(added[st][c])

\* --------------------------------------------------------------- claims

\* C1: in every state reached by add calls on fresh stores, the count
\* report_value returns for a category, both the sort key and the number
\* leading the display string, is the number of add calls made with that
\* category on that store.
C1_CountIsNumberOfAdds ==
    cls = "Stats" =>
        \A st \in StoresOf(cls), c \in Categories :
            IF c \in Keys(st)
            THEN LET rv == report_value(st, c)
                 IN  /\ rv.exc = "none"
                     /\ rv.n = Calls(st, c)
                     /\ DigitsFrom(rv.str, 1) > 0
                     /\ rv.str[DigitsFrom(rv.str, 1) + 1] = SP
                     /\ ParseNat(rv.str, 1, 0) = Calls(st, c)
            ELSE Calls(st, c) = 0

C1_Witness ==
    /\ cls = "Stats"
    /\ \E st \in StoresOf(cls), c, d \in Categories :
           /\ Calls(st, c) = 2 /\ Calls(st, d) = 1
           /\ report_value(st, c).n = 2 /\ report_value(st, d).n = 1

\* C2: a category key is in the mapping exactly when an add call was made
\* for it, its accumulator is never empty, and no step removes a key.
C2_KeyIffAdded ==
    \A st \in AllStores, c \in Categories :
        /\ (c \in Keys(st)) <=> (Calls(st, c) > 0)
        /\ c \in Keys(st) => heap[data[st][c]] # <<>>

C2_NeverRemoved ==
    \A st \in AllStores, c \in Categories : c \in Keys(st) => data'[st][c] # Absent

C2_KeysFollowAdds == [](C2_KeyIffAdded) /\ [][C2_NeverRemoved]_vars

C2_Witness ==
    /\ ret.op = "report"
    /\ \E st \in StoresOf(cls), c, d \in Categories :
           c \in Keys(st) /\ d \notin Keys(st) /\ Calls(st, c) > 0 /\ Calls(st, d) = 0

C4_TitleOrder ==
    (Reported /\ ret.order_by_title /\ Keys(ret.st) # {}) =>
        /\ NumCategoryLines = Cardinality(Keys(ret.st))
        /\ \A i \in 1..NumCategoryLines :
               \E c \in Keys(ret.st) : IsLineOf(ReportLines[i], ret.indent, c)
        /\ \A i, j \in 1..NumCategoryLines, a, b \in Keys(ret.st) :
               (i < j /\ IsLineOf(ReportLines[i], ret.indent, a)
                      /\ IsLineOf(ReportLines[j], ret.indent, b))
                   => SeqLess(a, b)

\* The category reported first was created later and has fewer values.
C4_Witness ==
    /\ Reported /\ ret.order_by_title
    /\ \E a, b \in Keys(ret.st) :
           /\ SeqLess(a, b)
           /\ data[ret.st][a] > data[ret.st][b]
           /\ Calls(ret.st, a) < Calls(ret.st, b)
           /\ IsLineOf(ReportLines[1], ret.indent, a)
           /\ IsLineOf(ReportLines[2], ret.indent, b)

\* The summary of a category before the length limit is applied.
FullSummary(st, c) ==
    IF cls = "StatsWithSum" THEN SumValueStr(added[st][c]) ELSE StatsValueStr(added[st][c])

\* C5: the display string report_value returns is the summary itself when
\* that is at most 150 characters long, and else its first 150 characters
\* followed by '...'; it is never longer than 153 characters.
C5_TruncatedAtLimit ==
    \A st \in StoresOf(cls) : \A c \in Keys(st) :
        LET rv == report_value(st, c)
            full == FullSummary(st, c)
        IN  rv.exc = "none" =>
                /\ Len(rv.str) <= 150 + 3
                /\ Len(full) <= 150 => rv.str = full
                /\ Len(full) > 150 =>
                       /\ Len(rv.str) = 153
                       /\ \A i \in 1..150 : rv.str[i] = full[i]
                       /\ \A i \in 151..153 : rv.str[i] = DOT

\* One summary of exactly 150 characters, kept whole, beside one that is
\* cut, in a store of either class.
C5_Witness ==
    \/ /\ cls = "Stats"
       /\ \E st \in StoresOf(cls) : \E c, d \in Keys(st) :
              /\ Len(FullSummary(st, c)) = 150 /\ report_value(st, c).str = FullSummary(st, c)
              /\ Len(FullSummary(st, d)) > 150 /\ Len(report_value(st, d).str) = 153
    \/ /\ cls = "StatsWithSum"
       /\ \E st \in StoresOf(cls) : \E d \in Keys(st) :
              /\ report_value(st, d).exc = "none"
              /\ Len(FullSummary(st, d)) > 150 /\ Len(report_value(st, d).str) = 153

\* The arithmetic sum of the numbers of a sequence of (id, number) pairs.
RECURSIVE Total(_)
Total(pairs) == IF pairs = <<>> THEN 0 ELSE Head(pairs)[2].n + Total(Tail(pairs))

C7_NoneLine ==
    Reported =>
        LET none_line == Repeat(TAB, ret.indent) \o S_None
        IN  /\ Keys(ret.st) = {} =>
                /\ ReportLines[1] = none_line
                /\ Len(ReportLines) = (IF ret.show_time_taken THEN 2 ELSE 1)
                /\ ret.show_time_taken =>
                       StartsWith(ReportLines[2], Repeat(TAB, ret.indent) \o S_TimeTaken)
            /\ (\E i \in 1..Len(ReportLines) : ReportLines[i] = none_line)
                   => Keys(ret.st) = {}

\* A report of an empty store with the time line, in a run where the
\* other store instance (if any) may hold categories.
C7_Witness ==
    /\ Reported /\ ret.show_time_taken /\ ret.indent = 1
    /\ Keys(ret.st) = {}
    /\ NumAdds > 0
    /\ Len(ReportLines) = 2

\* The entry an add call appends: the value (Stats) or the pair (StatsWithSum).
EntryOf(args) == IF Len(args) = 1 THEN args[1] ELSE <<args[1], args[2]>>

\* '<category>: <value>' (Stats) or '<category>: <id> <number>'
\* (StatsWithSum) with the arguments of the last add call, every character kept
LogText ==
    IF Len(ret.args) = 1 THEN ret.category \o S_ColonSp \o Str(ret.args[1])
    ELSE ret.category \o S_ColonSp \o Str(ret.args[1]) \o <<SP>> \o Str(ret.args[2])

\* C8: add never fails on non-ASCII input; it returns '<category>: <value>'
\* with the non-ASCII characters removed and the ASCII ones kept in order,
\* and the accumulator holds the value as it was passed.
C8_AddReturnsAsciiLog ==
    ret.op = "add" =>
        /\ ret.result.exc = "none"
        /\ ret.result.s = SelectSeq(LogText, IsAscii)
        /\ LET acc == heap[data[ret.st][ret.category]]
           IN  acc[Len(acc)] = EntryOf(ret.args)

\* What holds of add under either interpreter: the value is stored as it
\* was passed; when add returns, it returns the ASCII characters of the
\* log text; and it raises only under Python 2, on a byte-string argument
\* with a byte outside ASCII.
C8_AddStoresAndStripsOrRaises ==
    ret.op = "add" =>
        /\ LET acc == heap[data[ret.st][ret.category]]
           IN  acc[Len(acc)] = EntryOf(ret.args)
        /\ ret.result.exc = "none" => ret.result.s = SelectSeq(LogText, IsAscii)
        /\ ret.result.exc # "none" <=>
               (py = 2 /\ \E i \in 1..Len(ret.args) :
                              ret.args[i].kind = "bytes" /\ ~AllAscii(ret.args[i].s))

\* The accumulator of category c of store st (empty when c is no key).
Acc(h, d, st, c) == IF d[st][c] = Absent THEN <<>> ELSE h[d[st][c]]

\* C9: an add to category c of a store appends the new entry to c's
\* accumulator and leaves every other accumulator, of the same store and
\* of the other stores, and the class-level empty list, as they were; no
\* other step changes an accumulator.
C9_AddStep ==
    /\ heap'[InitRef] = <<>>
    /\ \A st \in AllStores, c \in Categories :
           IF ret'.op = "add" /\ ret'.st = st /\ ret'.category = c /\ added' # added
           THEN Acc(heap', data', st, c) = Append(Acc(heap, data, st, c), EntryOf(ret'.args))
           ELSE Acc(heap', data', st, c) = Acc(heap, data, st, c)

C9_AccumulatorsIndependent == [][C9_AddStep]_vars

\* Three categories created from the same class-level list, in two store
\* instances, each holding only its own entry.
C9_Witness ==
    /\ ret.op = "add" /\ ret.st = 2
    /\ \E c, d \in Categories :
           /\ c # d
           /\ Len(Acc(heap, data, 1, c)) = 1 /\ Len(Acc(heap, data, 1, d)) = 1
           /\ Len(Acc(heap, data, 2, c)) = 1 /\ Acc(heap, data, 2, d) = <<>>
           /\ Acc(heap, data, 1, c) # Acc(heap, data, 1, d)
           /\ Acc(heap, data, 2, c) # Acc(heap, data, 1, c)

\* A store that holds a pair whose number is not a number.
HasNonNumber(st) == \E c \in Keys(st) : ~AllNumbers(heap[data[st][c]])

\* C10: in a StatsWithSum store, an add whose number is not a number
\* succeeds and records the pair; a report of the store fails from then on,
\* and fails only then.
C10_NonNumberFailsAtReport ==
    cls = "StatsWithSum" =>
        /\ (ret.op = "add" /\ ~IsNumber(ret.args[2])) =>
               /\ ret.result.exc = "none"
               /\ LET acc == heap[data[ret.st][ret.category]]
                  IN  acc[Len(acc)] = EntryOf(ret.args) /\ Len(acc) = Calls(ret.st, ret.category)
        /\ ret.op = "report" => (ret.result.exc = "TypeError" <=> HasNonNumber(ret.st))

\* Without the claim that the add succeeds: the pair is recorded, and the
\* reports of the store fail from then on, and only then.
C10_RecordedAndReportFails ==
    cls = "StatsWithSum" =>
        /\ (ret.op = "add" /\ ~IsNumber(ret.args[2])) =>
               LET acc == heap[data[ret.st][ret.category]]
               IN  acc[Len(acc)] = EntryOf(ret.args) /\ Len(acc) = Calls(ret.st, ret.category)
        /\ ret.op = "report" => (ret.result.exc = "TypeError" <=> HasNonNumber(ret.st))

====
